---- MODULE Spec2Model ----
(***************************************************************************)
(* Model of the JClinic package: the all-pairs RMSD matrix builder         *)
(* (jclinic/pairwise_rmsd.py) and the sequence-embedding pipeline          *)
(* (jclinic/sequence_embeddings.py).                                       *)
(*                                                                         *)
(* A ProDy AtomGroup is modelled as a sequence of atom runs, each run      *)
(* carrying its segment name, chain identifier, the residue letters of its *)
(* C-alpha atoms and the number of its other atoms, plus the rigid         *)
(* placement (pos) and the conformation (conf) of its coordinate set.      *)
(***************************************************************************)
EXTENDS Integers, Sequences, FiniteSets, TLC

\* ------------------------------------------------------------------ bounds
MaxStructs == 3
MaxFiles == 2
MaxReq == 2

\* ------------------------------------------------------- structure inputs
NameUniverse == <<"A", "B", "C", "D", "E">>
AllNames == {NameUniverse[n] : n \in 1..MaxStructs}

Run(seg, chid, ca, het) == [seg |-> seg, chid |-> chid, ca |-> ca, het |-> het]

\* Atom layouts of the input files: a monomer, the same sequence split over
\* two segments that reuse chain identifier "A", a homodimer with two chain
\* identifiers, and a monomer with a ligand chain that has no C-alpha atom.
Layouts ==
    { [runs |-> <<Run("", "A", <<"G", "A">>, 0)>>, conf |-> 0],
      [runs |-> <<Run("S1", "A", <<"G">>, 0), Run("S2", "A", <<"A">>, 0)>>, conf |-> 1],
      [runs |-> <<Run("", "A", <<"G">>, 0), Run("", "B", <<"G">>, 0)>>, conf |-> 0],
      [runs |-> <<Run("", "A", <<"G", "A">>, 0), Run("", "L", <<>>, 1)>>, conf |-> 1] }

Positions == {0, 1}

HasCalphaEverywhere(l) == \A n \in 1..Len(l.runs) : l.runs[n].ca # <<>>

\* The structures handed to make_rmsds_matrix: every protein-only layout at
\* the origin, and the monomer also displaced.
StructPool ==
    {st \in {[runs |-> l.runs, conf |-> l.conf, pos |-> p] :
                l \in {x \in Layouts : HasCalphaEverywhere(x)}, p \in Positions} :
        st.pos = 0 \/ Len(st.runs) = 1}

\* The structures found in structure files.
FilePool == {[runs |-> l.runs, conf |-> l.conf, pos |-> 0] : l \in Layouts}

InjectiveSeqs(S) ==
    UNION {{s \in [1..n -> S] : \A a, b \in 1..n : a # b => s[a] # s[b]} : n \in 0..Cardinality(S)}

Range(s) == {s[n] : n \in DOMAIN s}

\* A Python dict: its keys in iteration order and its values.
Dicts(K, V) == UNION {{[keys |-> ks, val |-> v] : v \in [Range(ks) -> V]} : ks \in InjectiveSeqs(K)}

\* --------------------------------------------------------- ProDy operations
Abs(x) == IF x < 0 THEN -x ELSE x

RECURSIVE MergeRuns(_, _)
MergeRuns(runs, acc) ==
    IF runs = <<>> THEN acc
    ELSE LET r == Head(runs)
             same == {n \in 1..Len(acc) : acc[n].seg = r.seg /\ acc[n].chid = r.chid}
         IN IF same = {} THEN MergeRuns(Tail(runs), Append(acc, r))
            ELSE LET n == CHOOSE m \in same : TRUE
                 IN MergeRuns(Tail(runs),
                              [acc EXCEPT ![n] = [@ EXCEPT !.ca = @ \o r.ca, !.het = @ + r.het]])

\* AtomGroup.getHierView(): the chains, one per (segment name, chain id).
getHierView(s) == MergeRuns(s.runs, <<>>)

\* AtomGroup.copy()
copy(s) == s

setChids(s, c) == [s EXCEPT !.runs = [n \in 1..Len(s.runs) |-> [s.runs[n] EXCEPT !.chid = c]]]

setSegnames(s, c) == [s EXCEPT !.runs = [n \in 1..Len(s.runs) |-> [s.runs[n] EXCEPT !.seg = c]]]

\* Lines 77-82: the copy-and-relabel of one input structure.
combined_chains(s) == setSegnames(setChids(copy(s), "X"), "X")

\* A matched atom subset: the C-alpha residues with their coordinates.
Subset(s, ch) == [ca |-> ch.ca, pos |-> s.pos, conf |-> s.conf]

RECURSIVE MatchList(_, _, _, _)
MatchList(a, b, p, q) ==
    LET ca == getHierView(a)
        cb == getHierView(b)
    IN IF p > Len(ca) THEN <<>>
       ELSE IF q > Len(cb) THEN MatchList(a, b, p + 1, 1)
       ELSE IF ca[p].ca # <<>> /\ ca[p].ca = cb[q].ca
            THEN <<[m0 |-> Subset(a, ca[p]), m1 |-> Subset(b, cb[q])]>> \o MatchList(a, b, p, q + 1)
            ELSE MatchList(a, b, p, q + 1)

\* matchChains(a, b, subset="calpha"): None when no chain pair matches.
matchChains(a, b) ==
    LET l == MatchList(a, b, 1, 1)
    IN [none |-> l = <<>>, list |-> l]

RECURSIVE CatCa(_, _)
CatCa(matches, side) ==
    IF matches = <<>> THEN <<>>
    ELSE (IF side = 0 THEN Head(matches).m0.ca ELSE Head(matches).m1.ca) \o CatCa(Tail(matches), side)

_combine_matched_chains(matches) ==
    [bound   |-> [matches[1].m0 EXCEPT !.ca = CatCa(matches, 0)],
     unbound |-> [matches[1].m1 EXCEPT !.ca = CatCa(matches, 1)]]

\* calcTransformation(mobile, target): the rigid motion superposing mobile
\* onto target.
calcTransformation(mobile, target) == target.pos - mobile.pos

\* Transformation.apply(atoms): moves the atoms it is given.
apply(t, atoms) == [atoms EXCEPT !.pos = @ + t]

calcRMSD(a, b) == Abs(a.pos - b.pos) + Abs(a.conf - b.conf)

\* ------------------------------------------------------------ matrix cells
NaN == [nan |-> TRUE, v |-> 0]
Float(x) == [nan |-> FALSE, v |-> x]

\* Pairing that also pairs every name with itself.
RECURSIVE combinations_with_replacement(_)
combinations_with_replacement(s) ==
    IF Len(s) < 1 THEN <<>>
    ELSE [n \in 1..Len(s) |-> <<s[1], s[n]>>] \o combinations_with_replacement(Tail(s))

\* Pairing that yields both orders of every pair.
permutations(s) ==
    LET RECURSIVE Row(_, _)
        Row(a, b) ==
            IF a > Len(s) THEN <<>>
            ELSE IF b > Len(s) THEN Row(a + 1, 1)
            ELSE IF a = b THEN Row(a, b + 1)
            ELSE <<(<<s[a], s[b]>>)>> \o Row(a, b + 1)
    IN Row(1, 1)

\* itertools.combinations(names, 2)
RECURSIVE combinations(_)
combinations(s) ==
    IF Len(s) < 2 THEN <<>>
    ELSE [n \in 1..(Len(s) - 1) |-> <<s[1], s[n + 1]>>] \o combinations(Tail(s))

\* ---------------------------------------------------------------- state
VARIABLES
    parsed_structures_prody,  \* make_rmsds_matrix: the input dict (the caller's objects)
    show,                     \* make_rmsds_matrix: the show flag
    originals,                \* the input structures as they were at the call
    structure_names,          \* list(parsed_structures_prody.keys())
    pairwise_rmsds,           \* the DataFrame, a cell per (row name, column name)
    pair_iter,                \* what is left of combinations(structure_names, 2)
    writes,                   \* the cells assigned so far, in order
    r_pc                      \* position in make_rmsds_matrix

rvars == <<parsed_structures_prody, show, originals, structure_names,
           pairwise_rmsds, pair_iter, writes, r_pc>>

VARIABLES
    e_entry,               \* the function called: "main" or "embeddings_from_parsed_prody"
    structures_dir,        \* main: the files of the input directory and what they hold
    output_dir,            \* main: the output directory, whether it exists, its files
    pretrained_esm_model,  \* the model identifier argument
    repr_layers_arg,       \* the repr_layers argument
    structures_paths,      \* main: structure name -> path
    parse_iter,            \* main: the names still to parse
    parsed_for_embeddings, \* the parsed_structures_prody of the embedding pipeline
    esm2,                  \* the loaded model
    repr_layers,           \* the layers asked of the model
    sequences,             \* what get_sequences_from_parsed_prody returned
    emb_names,             \* the structures still to embed
    emb_chains,            \* the chains of the current structure still to embed
    esm2_embeddings,       \* structure name -> chain id -> list of representations
    write_iter,            \* main: the names still to write
    written,               \* main: the files written by this run, in order
    stdout,                \* what was printed
    raised,                \* the exception that ended the run
    n_forward,             \* number of forward passes of the model
    e_pc                   \* position in the embedding pipeline

evars == <<e_entry, structures_dir, output_dir, pretrained_esm_model, repr_layers_arg,
           structures_paths, parse_iter, parsed_for_embeddings, esm2, repr_layers,
           sequences, emb_names, emb_chains, esm2_embeddings, write_iter, written,
           stdout, raised, n_forward, e_pc>>

vars == <<rvars, evars>>

\* ------------------------------------------------------ make_rmsds_matrix
RmsdInit ==
    /\ parsed_structures_prody \in Dicts(AllNames, StructPool)
    /\ show \in BOOLEAN
    /\ originals = parsed_structures_prody
    /\ structure_names = <<>>
    /\ pairwise_rmsds = [c \in {} |-> Float(0)]
    /\ pair_iter = <<>>
    /\ writes = <<>>
    /\ r_pc = "call"

\* Lines 66-72: the name list, the table filled with 0.0, the pair iterator.
RmsdSetup ==
    /\ r_pc = "call"
    /\ structure_names' = parsed_structures_prody.keys
    /\ pairwise_rmsds' =
           [c \in Range(parsed_structures_prody.keys) \X Range(parsed_structures_prody.keys)
               |-> Float(0)]
    /\ pair_iter' = combinations(parsed_structures_prody.keys)
    /\ r_pc' = "loop"
    /\ UNCHANGED <<parsed_structures_prody, show, originals, writes>>
    /\ UNCHANGED evars

\* DataFrame.loc[row, col] = value
loc_set(df, row, col, value) == [df EXCEPT ![<<row, col>>] = value]

\* Lines 73-83 of one iteration: the matches of the two relabelled copies.
MatchesOf(name_i, name_j) ==
    LET structure_i == parsed_structures_prody.val[name_i]
        structure_j == parsed_structures_prody.val[name_j]
        n_chains_i == Len(getHierView(structure_i))
        n_chains_j == Len(getHierView(structure_j))
        combined_chains_i == combined_chains(structure_i)
        combined_chains_j == combined_chains(structure_j)
    IN matchChains(combined_chains_i, combined_chains_j)

\* Lines 84-99: an iteration whose pair aligns.
RmsdAligned ==
    /\ r_pc = "loop"
    /\ pair_iter # <<>>
    /\ LET name_i == Head(pair_iter)[1]
           name_j == Head(pair_iter)[2]
           structure_j == parsed_structures_prody.val[name_j]
           matches == MatchesOf(name_i, name_j)
       IN /\ ~matches.none
          /\ LET bu == _combine_matched_chains(matches.list)
                 transformation == calcTransformation(bu.unbound, bu.bound)
                 unbound_ca == apply(transformation, bu.unbound)
                 rmsd == calcRMSD(bu.bound, unbound_ca)
             IN /\ parsed_structures_prody' =
                       IF show
                       THEN [parsed_structures_prody EXCEPT
                                !.val[name_j] = apply(transformation, structure_j)]
                       ELSE parsed_structures_prody
                /\ pairwise_rmsds' = loc_set(pairwise_rmsds, name_i, name_j, Float(rmsd))
          /\ writes' = Append(writes, <<name_i, name_j>>)
    /\ pair_iter' = Tail(pair_iter)
    /\ UNCHANGED <<show, originals, structure_names, r_pc>>
    /\ UNCHANGED evars

\* An iteration that leaves the cell of an unalignable pair alone.
RmsdUnalignable_skip ==
    /\ r_pc = "loop"
    /\ pair_iter # <<>>
    /\ MatchesOf(Head(pair_iter)[1], Head(pair_iter)[2]).none
    /\ pair_iter' = Tail(pair_iter)
    /\ UNCHANGED <<parsed_structures_prody, show, originals, structure_names,
                   pairwise_rmsds, writes, r_pc>>
    /\ UNCHANGED evars

\* Lines 100-101: an iteration whose pair does not align.
RmsdUnalignable ==
    /\ r_pc = "loop"
    /\ pair_iter # <<>>
    /\ LET name_i == Head(pair_iter)[1]
           name_j == Head(pair_iter)[2]
       IN /\ MatchesOf(name_i, name_j).none
          /\ pairwise_rmsds' = loc_set(pairwise_rmsds, name_i, name_j, NaN)
          /\ writes' = Append(writes, <<name_i, name_j>>)
    /\ pair_iter' = Tail(pair_iter)
    /\ UNCHANGED <<parsed_structures_prody, show, originals, structure_names, r_pc>>
    /\ UNCHANGED evars

\* Line 103
RmsdReturn ==
    /\ r_pc = "loop"
    /\ pair_iter = <<>>
    /\ r_pc' = "returned"
    /\ UNCHANGED <<parsed_structures_prody, show, originals, structure_names,
                   pairwise_rmsds, pair_iter, writes>>
    /\ UNCHANGED evars


\* ======================================================================
\* jclinic/sequence_embeddings.py
\* ======================================================================

EmptyDict == [keys |-> <<>>, val |-> <<>>]

\* d[k] = v on a Python dict: a new key goes last, an old key keeps its place.
DictSet(d, k, v) ==
    [keys |-> IF k \in Range(d.keys) THEN d.keys ELSE Append(d.keys, k),
     val  |-> [x \in Range(d.keys) \cup {k} |-> IF x = k THEN v ELSE d.val[x]]]

\* ------------------------------------------------------------ file names
\* A file name is a sequence of tokens, <<"a", ".pdb">> for a.pdb.
FileUniverse ==
    { <<"a", ".pdb">>, <<"b", ".pdb">>, <<"a", ".pdb", ".pdb">>, <<"a", ".txt">> }

\* Rank of a token in string order.
TokRank(t) ==
    CASE t = ".pdb" -> 1
      [] t = ".pkl" -> 2
      [] t = ".txt" -> 3
      [] t = "a" -> 4
      [] t = "b" -> 5

RECURSIVE PathLess(_, _)
PathLess(x, y) ==
    IF x = <<>> THEN y # <<>>
    ELSE IF y = <<>> THEN FALSE
    ELSE IF Head(x) = Head(y) THEN PathLess(Tail(x), Tail(y))
    ELSE TokRank(Head(x)) < TokRank(Head(y))

RECURSIVE sorted(_)
sorted(S) ==
    IF S = {} THEN <<>>
    ELSE LET m == CHOOSE x \in S : \A y \in S \ {x} : PathLess(x, y)
         IN <<m>> \o sorted(S \ {m})

\* Path.glob("*.pdb")
glob_pdb(files) == {f \in files : Len(f) >= 1 /\ f[Len(f)] = ".pdb"}

\* A name taken as the part of the file name before its first dot.
removesuffix_first_dot(f, suffix) == SubSeq(f, 1, 1)

\* str.removesuffix
removesuffix(f, suffix) ==
    IF Len(f) >= 1 /\ f[Len(f)] = suffix THEN SubSeq(f, 1, Len(f) - 1) ELSE f

\* Lines 103-105: the dict comprehension over the sorted paths.
RECURSIVE PathsDict(_, _)
PathsDict(paths, acc) ==
    IF paths = <<>> THEN acc
    ELSE PathsDict(Tail(paths), DictSet(acc, removesuffix(Head(paths), ".pdb"), Head(paths)))

structures_paths_of(files) == PathsDict(sorted(glob_pdb(files)), EmptyDict)

\* ----------------------------------------------------------- file contents
NoAg == [runs |-> <<>>, conf |-> 0, pos |-> 0]

\* What a structure file holds: atoms, no atom record at all, or nothing
\* that can be opened and read.
FileContents ==
    {[kind |-> "atoms", ag |-> st] : st \in FilePool}
        \cup {[kind |-> "noatoms", ag |-> NoAg], [kind |-> "unreadable", ag |-> NoAg]}

NotStructure == [kind |-> "noatoms", ag |-> NoAg]

Dirs ==
    UNION {{[files |-> fs, content |-> c] :
               c \in {g \in [fs -> FileContents] :
                         \A f \in fs \ glob_pdb(fs) : g[f] = NotStructure}} :
           fs \in {x \in SUBSET FileUniverse : Cardinality(x) <= MaxFiles}}

\* parsePDB: raises on a file it cannot read, returns None on a file without
\* atoms, the AtomGroup otherwise.
parsePDB(content) ==
    [raised |-> content.kind = "unreadable",
     value  |-> [none |-> content.kind # "atoms", ag |-> content.ag]]

\* ------------------------------------------------------ the esm.pretrained namespace
\* An attribute is a model loader (callable without arguments), a function
\* that needs arguments, or a value that cannot be called.
EsmPretrained ==
    { [name |-> <<"esm2", "_t6_8M_UR50D">>, kind |-> "loader", layers |-> 6],
      [name |-> <<"esm1b", "_t33_650M_UR50S">>, kind |-> "loader", layers |-> 33],
      [name |-> <<"load_model_and_alphabet">>, kind |-> "function", layers |-> 0],
      [name |-> <<"__name__">>, kind |-> "value", layers |-> 0] }

NoModel == [name |-> <<>>, kind |-> "none", layers |-> 0]

\* The identifiers a caller may pass.
ModelIds == {a.name : a \in EsmPretrained} \cup { <<"esm2", "_bogus">>, <<"resnet50">> }

dir(ns) == {a.name : a \in ns}

startswith(x, prefix) == Len(x) >= 1 /\ x[1] = prefix

\* Line 21
PRETRAINED_ESM_MODELS == {x \in dir(EsmPretrained) : startswith(x, "esm2")}

hasattr(ns, name) == \E a \in ns : a.name = name

getattr(ns, name) == CHOOSE a \in ns : a.name = name

LayerChoices == {0, 6, 7}

\* The repr_layers argument: None or a list of layer numbers.
ReprChoices ==
    {[none |-> TRUE, list |-> <<>>]}
        \cup {[none |-> FALSE, list |-> l] : l \in UNION {[1..n -> LayerChoices] : n \in 0..MaxReq}}

\* ------------------------------------------------ get_sequences_from_parsed_prody
\* Lines 29-33: the chains of one structure.
RECURSIVE ChainSequences(_, _)
ChainSequences(chains, acc) ==
    IF chains = <<>> THEN [raised |-> FALSE, value |-> acc]
    ELSE IF Head(chains).ca = <<>> THEN [raised |-> TRUE, value |-> acc]
    ELSE ChainSequences(Tail(chains), DictSet(acc, Head(chains).chid, Head(chains).ca))

RECURSIVE StructureSequences(_, _, _)
StructureSequences(names, parsed, acc) ==
    IF names = <<>> THEN [raised |-> FALSE, value |-> acc]
    ELSE LET name == Head(names)
             structure == parsed.val[name]
         IN IF structure.none THEN [raised |-> TRUE, value |-> acc]
            ELSE LET r == ChainSequences(getHierView(structure.ag), EmptyDict)
                 IN IF r.raised THEN [raised |-> TRUE, value |-> acc]
                    ELSE StructureSequences(Tail(names), parsed, DictSet(acc, name, r.value))

\* Lines 24-35. It raises when a structure is None or a chain has no C-alpha.
get_sequences_from_parsed_prody(parsed) == StructureSequences(parsed.keys, parsed, EmptyDict)

\* ----------------------------------------------------------------- inference
\* The model's forward pass: a representation for every requested layer the
\* model has, layer 0 (the embedding) to its last layer.
forward(model, seq, layers) ==
    [l \in {x \in layers : 0 <= x /\ x <= model.layers} |->
        [model |-> model.name, seq |-> seq, layer |-> l]]

\* The list comprehension read back to front.
token_representations_reversed(results, layers) ==
    [n \in 1..Len(layers) |-> results[layers[Len(layers) + 1 - n]]]

\* Lines 83-85
token_representations(results, layers) ==
    [n \in 1..Len(layers) |-> results[layers[n]]]

NoError == [type |-> "none", at |-> "none"]
Error(type, at) == [type |-> type, at |-> at]


NoFiles == [f \in {} |-> NotStructure]
EmptyDir == [files |-> {}, content |-> NoFiles]
AbsentOut == [exists |-> FALSE, files |-> NoFiles]
Stale == [kind |-> "stale", data |-> EmptyDict]
Pickle(obj) == [kind |-> "pickle", data |-> obj]

\* The output directory before the run: absent, empty, or left by an older run.
OutDirs ==
    { AbsentOut,
      [exists |-> TRUE, files |-> NoFiles],
      [exists |-> TRUE, files |-> [f \in { <<"a", ".pkl">> } |-> Stale]] }

DirectNames == { <<"a">>, <<"b">> }

EmbLocalsInit ==
    /\ structures_paths = EmptyDict
    /\ parse_iter = <<>>
    /\ esm2 = NoModel
    /\ repr_layers = <<>>
    /\ sequences = EmptyDict
    /\ emb_names = <<>>
    /\ emb_chains = <<>>
    /\ esm2_embeddings = EmptyDict
    /\ write_iter = <<>>
    /\ written = <<>>
    /\ stdout = <<>>
    /\ raised = NoError
    /\ n_forward = 0

\* A run of main (the command line sets no repr_layers).
MainInit ==
    /\ e_entry = "main"
    /\ structures_dir \in Dirs
    /\ output_dir \in OutDirs
    /\ pretrained_esm_model \in ModelIds
    /\ repr_layers_arg = [none |-> TRUE, list |-> <<>>]
    /\ parsed_for_embeddings = EmptyDict
    /\ EmbLocalsInit
    /\ e_pc = "main"

\* A call of embeddings_from_parsed_prody by a library user.
DirectInit ==
    /\ e_entry = "embeddings_from_parsed_prody"
    /\ structures_dir = EmptyDir
    /\ output_dir = AbsentOut
    /\ pretrained_esm_model \in ModelIds
    /\ repr_layers_arg \in ReprChoices
    /\ parsed_for_embeddings \in
           Dicts(DirectNames, {[none |-> FALSE, ag |-> st] : st \in FilePool})
    /\ EmbLocalsInit
    /\ e_pc = "call"

EmbIdle ==
    /\ e_entry = "none"
    /\ structures_dir = EmptyDir
    /\ output_dir = AbsentOut
    /\ pretrained_esm_model = <<>>
    /\ repr_layers_arg = [none |-> TRUE, list |-> <<>>]
    /\ parsed_for_embeddings = EmptyDict
    /\ EmbLocalsInit
    /\ e_pc = "idle"

RmsdIdle ==
    /\ parsed_structures_prody = EmptyDict
    /\ show = FALSE
    /\ originals = EmptyDict
    /\ structure_names = <<>>
    /\ pairwise_rmsds = [c \in {} |-> Float(0)]
    /\ pair_iter = <<>>
    /\ writes = <<>>
    /\ r_pc = "idle"

Abort(type, at) ==
    /\ raised' = Error(type, at)
    /\ e_pc' = "aborted"

\* ------------------------------------------------------------------- main
\* Lines 99-105: the output directory is made, the paths are listed.
MainStart ==
    /\ e_pc = "main"
    /\ output_dir' = [output_dir EXCEPT !.exists = TRUE]
    /\ structures_paths' = structures_paths_of(structures_dir.files)
    /\ parse_iter' = structures_paths_of(structures_dir.files).keys
    /\ e_pc' = "parse"
    /\ UNCHANGED <<e_entry, structures_dir, pretrained_esm_model, repr_layers_arg,
                   parsed_for_embeddings, esm2, repr_layers, sequences, emb_names,
                   emb_chains, esm2_embeddings, write_iter, written, stdout, raised,
                   n_forward>>
    /\ UNCHANGED rvars

\* Lines 106-108: one file parsed.
MainParse ==
    /\ e_pc = "parse"
    /\ parse_iter # <<>>
    /\ LET name == Head(parse_iter)
           r == parsePDB(structures_dir.content[structures_paths.val[name]])
       IN /\ ~r.raised
          /\ parsed_for_embeddings' = DictSet(parsed_for_embeddings, name, r.value)
    /\ parse_iter' = Tail(parse_iter)
    /\ UNCHANGED <<e_entry, structures_dir, output_dir, pretrained_esm_model,
                   repr_layers_arg, structures_paths, esm2, repr_layers, sequences,
                   emb_names, emb_chains, esm2_embeddings, write_iter, written, stdout,
                   raised, n_forward, e_pc>>
    /\ UNCHANGED rvars

\* Lines 106-108: parsePDB raises, nothing catches it.
MainParseRaises ==
    /\ e_pc = "parse"
    /\ parse_iter # <<>>
    /\ parsePDB(structures_dir.content[structures_paths.val[Head(parse_iter)]]).raised
    /\ Abort("OSError", "parse")
    /\ UNCHANGED <<e_entry, structures_dir, output_dir, pretrained_esm_model,
                   repr_layers_arg, structures_paths, parse_iter, parsed_for_embeddings,
                   esm2, repr_layers, sequences, emb_names, emb_chains, esm2_embeddings,
                   write_iter, written, stdout, n_forward>>
    /\ UNCHANGED rvars

\* Line 110: main calls embeddings_from_parsed_prody.
MainCall ==
    /\ e_pc = "parse"
    /\ parse_iter = <<>>
    /\ e_pc' = "call"
    /\ UNCHANGED <<e_entry, structures_dir, output_dir, pretrained_esm_model,
                   repr_layers_arg, structures_paths, parse_iter, parsed_for_embeddings,
                   esm2, repr_layers, sequences, emb_names, emb_chains, esm2_embeddings,
                   write_iter, written, stdout, raised, n_forward>>
    /\ UNCHANGED rvars

\* ------------------------------------------------- embeddings_from_parsed_prody
\* Lines 44-48: the namespace has no such attribute; the valid set is
\* printed and the AttributeError raised again.
EmbLookupMissing ==
    /\ e_pc = "call"
    /\ ~hasattr(EsmPretrained, pretrained_esm_model)
    /\ stdout' = Append(stdout, [msg |-> "must be one of", models |-> PRETRAINED_ESM_MODELS])
    /\ Abort("AttributeError", "lookup")
    /\ UNCHANGED <<e_entry, structures_dir, output_dir, pretrained_esm_model,
                   repr_layers_arg, structures_paths, parse_iter, parsed_for_embeddings,
                   esm2, repr_layers, sequences, emb_names, emb_chains, esm2_embeddings,
                   write_iter, written, n_forward>>
    /\ UNCHANGED rvars

\* Line 45: the attribute exists but calling it without arguments raises
\* TypeError, which the except clause does not catch.
EmbLookupNotLoader ==
    /\ e_pc = "call"
    /\ hasattr(EsmPretrained, pretrained_esm_model)
    /\ getattr(EsmPretrained, pretrained_esm_model).kind # "loader"
    /\ Abort("TypeError", "lookup")
    /\ UNCHANGED <<e_entry, structures_dir, output_dir, pretrained_esm_model,
                   repr_layers_arg, structures_paths, parse_iter, parsed_for_embeddings,
                   esm2, repr_layers, sequences, emb_names, emb_chains, esm2_embeddings,
                   write_iter, written, stdout, n_forward>>
    /\ UNCHANGED rvars

\* Lines 45, 50-59: the attribute is a loader; the model is loaded.
EmbLookupLoaded ==
    /\ e_pc = "call"
    /\ hasattr(EsmPretrained, pretrained_esm_model)
    /\ LET model == getattr(EsmPretrained, pretrained_esm_model)
       IN /\ model.kind = "loader"
          /\ esm2' = model
          /\ repr_layers' = IF repr_layers_arg.none THEN <<model.layers>>
                            ELSE repr_layers_arg.list
    /\ stdout' = Append(stdout, [msg |-> "Using", models |-> {pretrained_esm_model}])
    /\ e_pc' = "sequences"
    /\ UNCHANGED <<e_entry, structures_dir, output_dir, pretrained_esm_model,
                   repr_layers_arg, structures_paths, parse_iter, parsed_for_embeddings,
                   sequences, emb_names, emb_chains, esm2_embeddings, write_iter,
                   written, raised, n_forward>>
    /\ UNCHANGED rvars

\* Lines 61-65: the sequences are extracted.
EmbSequences ==
    /\ e_pc = "sequences"
    /\ LET r == get_sequences_from_parsed_prody(parsed_for_embeddings)
       IN /\ ~r.raised
          /\ sequences' = r.value
          /\ emb_names' = r.value.keys
    /\ e_pc' = "embed"
    /\ UNCHANGED <<e_entry, structures_dir, output_dir, pretrained_esm_model,
                   repr_layers_arg, structures_paths, parse_iter, parsed_for_embeddings,
                   esm2, repr_layers, emb_chains, esm2_embeddings, write_iter, written,
                   stdout, raised, n_forward>>
    /\ UNCHANGED rvars

\* Line 61: get_sequences_from_parsed_prody raises (a None structure, or a
\* chain whose C-alpha selection is None).
EmbSequencesRaises ==
    /\ e_pc = "sequences"
    /\ get_sequences_from_parsed_prody(parsed_for_embeddings).raised
    /\ Abort("AttributeError", "sequences")
    /\ UNCHANGED <<e_entry, structures_dir, output_dir, pretrained_esm_model,
                   repr_layers_arg, structures_paths, parse_iter, parsed_for_embeddings,
                   esm2, repr_layers, sequences, emb_names, emb_chains, esm2_embeddings,
                   write_iter, written, stdout, n_forward>>
    /\ UNCHANGED rvars

\* Lines 65-67: the next structure of the outer loop.
EmbNextStructure ==
    /\ e_pc = "embed"
    /\ emb_chains = <<>>
    /\ emb_names # <<>>
    /\ LET name == Head(emb_names)
           chains == sequences.val[name]
       IN /\ esm2_embeddings' = DictSet(esm2_embeddings, name, EmptyDict)
          /\ emb_chains' = [n \in 1..Len(chains.keys) |->
                               [name |-> name, chain_id |-> chains.keys[n],
                                seq |-> chains.val[chains.keys[n]]]]
    /\ emb_names' = Tail(emb_names)
    /\ UNCHANGED <<e_entry, structures_dir, output_dir, pretrained_esm_model,
                   repr_layers_arg, structures_paths, parse_iter, parsed_for_embeddings,
                   esm2, repr_layers, sequences, write_iter, written, stdout, raised,
                   n_forward, e_pc>>
    /\ UNCHANGED rvars

\* f"{name}.pkl"
pkl_name(name) == name \o <<".pkl">>

\* open(path, "wb") and pickle.dump: the file is created or replaced.
dump(d, fname, obj) ==
    [d EXCEPT !.files = [f \in DOMAIN d.files \cup {fname} |->
                            IF f = fname THEN Pickle(obj) ELSE d.files[f]]]

\* One chain embedded, and the structure's file written as soon as its last
\* chain is done.
EmbChain_streaming ==
    /\ e_pc = "embed"
    /\ emb_chains # <<>>
    /\ LET c == Head(emb_chains)
           results == forward(esm2, c.seq, Range(repr_layers))
           emb == DictSet(esm2_embeddings.val[c.name], c.chain_id,
                          token_representations(results, repr_layers))
       IN /\ Range(repr_layers) \subseteq DOMAIN results
          /\ esm2_embeddings' = DictSet(esm2_embeddings, c.name, emb)
          /\ IF e_entry = "main" /\ Tail(emb_chains) = <<>>
             THEN /\ output_dir' = dump(output_dir, pkl_name(c.name), emb)
                  /\ written' = Append(written, pkl_name(c.name))
             ELSE UNCHANGED <<output_dir, written>>
    /\ n_forward' = n_forward + 1
    /\ emb_chains' = Tail(emb_chains)
    /\ UNCHANGED <<e_entry, structures_dir, pretrained_esm_model,
                   repr_layers_arg, structures_paths, parse_iter, parsed_for_embeddings,
                   esm2, repr_layers, sequences, emb_names, write_iter, stdout,
                   raised, e_pc>>
    /\ UNCHANGED rvars

\* Lines 68-86: one chain embedded.
EmbChain ==
    /\ e_pc = "embed"
    /\ emb_chains # <<>>
    /\ LET c == Head(emb_chains)
           results == forward(esm2, c.seq, Range(repr_layers))
       IN /\ Range(repr_layers) \subseteq DOMAIN results
          /\ esm2_embeddings' =
                 DictSet(esm2_embeddings, c.name,
                         DictSet(esm2_embeddings.val[c.name], c.chain_id,
                                 token_representations(results, repr_layers)))
    /\ n_forward' = n_forward + 1
    /\ emb_chains' = Tail(emb_chains)
    /\ UNCHANGED <<e_entry, structures_dir, output_dir, pretrained_esm_model,
                   repr_layers_arg, structures_paths, parse_iter, parsed_for_embeddings,
                   esm2, repr_layers, sequences, emb_names, write_iter, written, stdout,
                   raised, e_pc>>
    /\ UNCHANGED rvars

\* Lines 83-85: a requested layer the model does not have: KeyError.
EmbChainKeyError ==
    /\ e_pc = "embed"
    /\ emb_chains # <<>>
    /\ ~(Range(repr_layers) \subseteq
             DOMAIN forward(esm2, Head(emb_chains).seq, Range(repr_layers)))
    /\ n_forward' = n_forward + 1
    /\ Abort("KeyError", "inference")
    /\ UNCHANGED <<e_entry, structures_dir, output_dir, pretrained_esm_model,
                   repr_layers_arg, structures_paths, parse_iter, parsed_for_embeddings,
                   esm2, repr_layers, sequences, emb_names, emb_chains, esm2_embeddings,
                   write_iter, written, stdout>>
    /\ UNCHANGED rvars

\* Lines 78-82: the forward pass itself fails (out of memory, say).
EmbChainRaises ==
    /\ e_pc = "embed"
    /\ emb_chains # <<>>
    /\ Abort("RuntimeError", "inference")
    /\ UNCHANGED <<e_entry, structures_dir, output_dir, pretrained_esm_model,
                   repr_layers_arg, structures_paths, parse_iter, parsed_for_embeddings,
                   esm2, repr_layers, sequences, emb_names, emb_chains, esm2_embeddings,
                   write_iter, written, stdout, n_forward>>
    /\ UNCHANGED rvars

\* Line 88, and line 114 when main is the caller.
EmbReturn ==
    /\ e_pc = "embed"
    /\ emb_chains = <<>>
    /\ emb_names = <<>>
    /\ IF e_entry = "main"
       THEN /\ write_iter' = esm2_embeddings.keys
            /\ e_pc' = "write"
       ELSE /\ write_iter' = write_iter
            /\ e_pc' = "returned"
    /\ UNCHANGED <<e_entry, structures_dir, output_dir, pretrained_esm_model,
                   repr_layers_arg, structures_paths, parse_iter, parsed_for_embeddings,
                   esm2, repr_layers, sequences, emb_names, emb_chains, esm2_embeddings,
                   written, stdout, raised, n_forward>>
    /\ UNCHANGED rvars

\* Lines 114-116: one file written.
MainWrite ==
    /\ e_pc = "write"
    /\ write_iter # <<>>
    /\ LET name == Head(write_iter)
       IN /\ output_dir' = dump(output_dir, pkl_name(name), esm2_embeddings.val[name])
          /\ written' = Append(written, pkl_name(name))
    /\ write_iter' = Tail(write_iter)
    /\ UNCHANGED <<e_entry, structures_dir, pretrained_esm_model, repr_layers_arg,
                   structures_paths, parse_iter, parsed_for_embeddings, esm2, repr_layers,
                   sequences, emb_names, emb_chains, esm2_embeddings, stdout, raised,
                   n_forward, e_pc>>
    /\ UNCHANGED rvars

\* Line 118
MainReturn ==
    /\ e_pc = "write"
    /\ write_iter = <<>>
    /\ e_pc' = "done"
    /\ UNCHANGED <<e_entry, structures_dir, output_dir, pretrained_esm_model,
                   repr_layers_arg, structures_paths, parse_iter, parsed_for_embeddings,
                   esm2, repr_layers, sequences, emb_names, emb_chains, esm2_embeddings,
                   write_iter, written, stdout, raised, n_forward>>
    /\ UNCHANGED rvars

\* ------------------------------------------------------------ specification
Init ==
    \/ RmsdInit /\ EmbIdle
    \/ RmsdIdle /\ (MainInit \/ DirectInit)

Next ==
    \/ RmsdSetup \/ RmsdAligned \/ RmsdUnalignable \/ RmsdReturn
    \/ MainStart \/ MainParse \/ MainParseRaises \/ MainCall
    \/ EmbLookupMissing \/ EmbLookupNotLoader \/ EmbLookupLoaded
    \/ EmbSequences \/ EmbSequencesRaises
    \/ EmbNextStructure \/ EmbChain \/ EmbChainKeyError \/ EmbChainRaises \/ EmbReturn
    \/ MainWrite \/ MainReturn

Spec == Init /\ [][Next]_vars

\* ======================================================================
\* Properties
\* ======================================================================

IndexOf(s, x) == CHOOSE n \in 1..Len(s) : s[n] = x

\* The cells (i, j) with i strictly before j in the order of the sequence.
StrictUpper(names) ==
    {c \in Range(names) \X Range(names) : IndexOf(names, c[1]) < IndexOf(names, c[2])}

\* C1: when make_rmsds_matrix returns on n distinct names, the cells it
\* assigned are exactly the n(n-1)/2 cells (i, j) with i before j in the
\* iteration order of the input dict, each assigned once, and every other
\* cell of the n x n table (diagonal and lower triangle) still holds 0.0.
C1_UpperTriangleWritten ==
    r_pc = "returned" =>
        LET names == originals.keys
            n == Len(names)
        IN /\ DOMAIN pairwise_rmsds = Range(names) \X Range(names)
           /\ Range(writes) = StrictUpper(names)
           /\ Len(writes) = (n * (n - 1)) \div 2
           /\ \A c \in DOMAIN pairwise_rmsds \ StrictUpper(names) :
                  pairwise_rmsds[c] = Float(0)

\* Three structures given in an order that is not alphabetical; one assigned
\* cell holds NaN and one holds a computed 0.0.
C1_Witness ==
    /\ r_pc = "returned"
    /\ Len(originals.keys) = 3
    /\ originals.keys[1] = "C"
    /\ \E c \in Range(writes) : pairwise_rmsds[c] = NaN
    /\ \E c \in Range(writes) : pairwise_rmsds[c] = Float(0)

\* C2: every processed pair for which matchChains found nothing has NaN in
\* its cell (not the initial 0.0, not a number), and the loop went on: the
\* call raises nothing and returns only when no pair is left.
C2_UnalignableIsNaN ==
    /\ r_pc \in {"loop", "returned"} =>
        LET pairs == combinations(structure_names)
            done == Len(pairs) - Len(pair_iter)
        IN \A k \in 1..done :
               MatchesOf(pairs[k][1], pairs[k][2]).none =>
                   /\ pairwise_rmsds[pairs[k]].nan
                   /\ pairs[k] \in Range(writes)
    /\ r_pc = "returned" => pair_iter = <<>>

\* An unalignable pair was processed first, and a later pair after it.
C2_Witness ==
    /\ r_pc = "loop"
    /\ Len(writes) >= 2
    /\ pairwise_rmsds[writes[1]] = NaN
    /\ pairwise_rmsds[writes[2]] # NaN

\* C5: the structures of the input dict are never changed by
\* make_rmsds_matrix, whatever the show flag: labels, atoms and coordinates
\* are as they were at the call.
C5_InputsNeverMutated == parsed_structures_prody = originals

\* C8: at every step of the loop the assigned cells are (i, j) with i before
\* j, in strictly increasing combinations order (so no pair twice, never
\* (j, i), never the diagonal), no pair before an assigned one was passed
\* over, and at the end every pair has been assigned.
C8_PairsInCombinationsOrder ==
    r_pc \in {"loop", "returned"} =>
        LET idx(x) == IndexOf(structure_names, x)
            Before(p, q) ==
                \/ idx(p[1]) < idx(q[1])
                \/ idx(p[1]) = idx(q[1]) /\ idx(p[2]) < idx(q[2])
        IN /\ \A k \in 1..Len(writes) : idx(writes[k][1]) < idx(writes[k][2])
           /\ \A k, m \in 1..Len(writes) : k < m => Before(writes[k], writes[m])
           /\ \A k \in 1..Len(writes) :
                  \A c \in StrictUpper(structure_names) :
                      Before(c, writes[k]) => \E m \in 1..(k - 1) : writes[m] = c
           /\ r_pc = "returned" => StrictUpper(structure_names) \subseteq Range(writes)

\* In the middle of the loop over three structures.
C8_Witness ==
    /\ r_pc = "loop"
    /\ Len(structure_names) = 3
    /\ Len(writes) = 2
    /\ pair_iter # <<>>

\* ------------------------------------------------------------ embeddings
\* The model lookup of embeddings_from_parsed_prody has been made.
LookupDone ==
    /\ e_pc \notin {"idle", "main", "parse", "call"}
    /\ raised.at # "parse"

ValidSetPrinted ==
    \E n \in 1..Len(stdout) :
        stdout[n] = [msg |-> "must be one of", models |-> PRETRAINED_ESM_MODELS]

\* C3: an identifier outside the valid set makes the call print the valid
\* set and raise the lookup error before any sequence is extracted or any
\* inference runs; no model is loaded in its place and main writes no file.
C3_InvalidModelFailsFast ==
    (LookupDone /\ pretrained_esm_model \notin PRETRAINED_ESM_MODELS) =>
        /\ e_pc = "aborted"
        /\ raised = Error("AttributeError", "lookup")
        /\ ValidSetPrinted
        /\ esm2 = NoModel
        /\ sequences = EmptyDict
        /\ n_forward = 0
        /\ written = <<>>

\* C4: the identifier is accepted (its model loaded and used) exactly when
\* it is in PRETRAINED_ESM_MODELS; any other identifier is rejected with the
\* fail-fast error that reports the valid set.
C4_AcceptedIffInValidSet ==
    LookupDone =>
        /\ (esm2 # NoModel) <=> (pretrained_esm_model \in PRETRAINED_ESM_MODELS)
        /\ esm2 # NoModel => esm2.name = pretrained_esm_model
        /\ pretrained_esm_model \notin PRETRAINED_ESM_MODELS =>
               (ValidSetPrinted /\ raised.type = "AttributeError")

\* The layers a call asks for: the argument, or the model's final layer.
Requested == IF repr_layers_arg.none THEN <<esm2.layers>> ELSE repr_layers_arg.list

\* C6: in the result, every chain of every structure has one representation
\* per requested layer, of that chain's sequence, in the order requested;
\* without repr_layers it is the single representation of the final layer.
C6_OneRepresentationPerLayer ==
    e_pc \in {"returned", "write", "done"} =>
        \A name \in Range(esm2_embeddings.keys) :
            \A ch \in Range(esm2_embeddings.val[name].keys) :
                LET l == esm2_embeddings.val[name].val[ch]
                IN /\ Len(l) = Len(Requested)
                   /\ \A n \in 1..Len(l) :
                          l[n] = [model |-> pretrained_esm_model,
                                  seq |-> sequences.val[name].val[ch],
                                  layer |-> Requested[n]]

\* Two layers requested in descending order, on a non-empty input.
C6_Witness ==
    /\ e_pc = "returned"
    /\ repr_layers_arg = [none |-> FALSE, list |-> <<6, 0>>]
    /\ esm2_embeddings.keys # <<>>

\* C7: after main completes, every structure file f of the input directory
\* has its own output file, named after f without the .pdb extension, that
\* holds the chain-to-representations mapping of that structure; main wrote
\* one file per structure and no file twice.
C7_OneFilePerStructure ==
    e_pc = "done" =>
        LET pdbs == {f \in structures_dir.files : f[Len(f)] = ".pdb"}
            NameOf(f) == SubSeq(f, 1, Len(f) - 1)
            Out(f) == NameOf(f) \o <<".pkl">>
        IN /\ \A f \in pdbs :
                  /\ NameOf(f) \in Range(esm2_embeddings.keys)
                  /\ Out(f) \in DOMAIN output_dir.files
                  /\ output_dir.files[Out(f)] = Pickle(esm2_embeddings.val[NameOf(f)])
                  /\ LET chains == getHierView(structures_dir.content[f].ag)
                         emb == esm2_embeddings.val[NameOf(f)]
                     IN /\ Range(emb.keys) = {chains[n].chid : n \in 1..Len(chains)}
                        /\ \A ch \in Range(emb.keys) : \A n \in 1..Len(emb.val[ch]) :
                               \E m \in 1..Len(chains) :
                                   /\ chains[m].chid = ch
                                   /\ chains[m].ca = emb.val[ch][n].seq
           /\ \A f, g \in pdbs : f # g => Out(f) # Out(g)
           /\ Range(written) = {Out(f) : f \in pdbs}
           /\ Len(written) = Cardinality(pdbs)

\* Two structure files, a.pdb and a.pdb.pdb, and an output directory that
\* already held a.pkl.
C7_Witness ==
    /\ e_pc = "done"
    /\ structures_dir.files = { <<"a", ".pdb">>, <<"a", ".pdb", ".pdb">> }
    /\ Len(written) = 2
    /\ output_dir.files[<<"a", ".pkl">>].kind = "pickle"

\* C9: the mapping get_sequences_from_parsed_prody returns for a structure
\* has one entry per chain of the structure, under the chain's label.
C9_OneSequencePerChain ==
    e_pc \in {"embed", "returned", "write", "done"} =>
        \A name \in Range(parsed_for_embeddings.keys) :
            LET chains == getHierView(parsed_for_embeddings.val[name].ag)
            IN /\ Len(sequences.val[name].keys) = Len(chains)
               /\ Range(sequences.val[name].keys) = {chains[n].chid : n \in 1..Len(chains)}

\* C10: main writes no file before every file is parsed and every chain of
\* every structure embedded; a run that fails while parsing or embedding
\* ends with no file written and the output directory's files untouched.
C10_NoOutputBeforeAllEmbedded ==
    /\ written # <<>> =>
           /\ e_pc \in {"write", "done"}
           /\ parse_iter = <<>> /\ emb_names = <<>> /\ emb_chains = <<>>
           /\ Range(parsed_for_embeddings.keys) = Range(structures_paths.keys)
           /\ Range(esm2_embeddings.keys) = Range(structures_paths.keys)
           /\ \A name \in Range(esm2_embeddings.keys) :
                  Len(esm2_embeddings.val[name].keys) = Len(sequences.val[name].keys)
    /\ (e_pc = "aborted" /\ raised.at \in {"parse", "sequences", "inference"}) =>
           /\ written = <<>>
           /\ \A f \in DOMAIN output_dir.files : output_dir.files[f] = Stale

\* A run of main that fails on a chain after another chain was embedded.
C10_Witness ==
    /\ e_entry = "main"
    /\ e_pc = "aborted"
    /\ raised.at = "inference"
    /\ n_forward >= 1
    /\ Cardinality(Range(structures_paths.keys)) = 2

====
